---- MODULE Spec2Model ----
(***************************************************************************)
(* The client-side task pipeline of hypershell (src/hypershell/client.py). *)
(*                                                                         *)
(* One ClientThread (the coordinator) owns the remote queue endpoint, the  *)
(* two bounded local queues `inbound` and `outbound`, and N + 2 worker     *)
(* threads: one ClientScheduler, N TaskExecutors, one ClientCollector.     *)
(* Every worker is a finite-state machine; one action below is one handler *)
(* of one machine (one pass of the machine's run loop).                    *)
(*                                                                         *)
(* Python's None is the empty tuple; an Optional scalar holding v is <<v>>,*)
(* and so is a bundle where None may stand instead: an empty bundle is     *)
(* <<<<>>>>, which is not None.                                            *)
(*                                                                         *)
(* The cluster launcher (src/hyper_shell/apps/cluster.py) is a process of  *)
(* its own: it starts one server and the clients as child processes and    *)
(* waits for them. Its actions are the steps of Cluster.run.               *)
(***************************************************************************)
EXTENDS Integers, Sequences, FiniteSets, TLC

\* Bounds of the model: the tasks the server sends in one run, the second
\* at which the model stops the clock, and the empty bundles a server that
\* sends empty bundles sends in one run.
MaxTasks == 2
MaxTime == 1
MaxEmpty == 1

\* Bound of the launcher's model: the clients one launcher starts.
MaxClients == 2

\* Cluster.cluster_modes
ClusterModes == {"local", "ssh", "mpi", "parsl"}

\* The values secrets.token_hex may return.
Keys == {"k1", "k2"}

\* The configurations a run is started with.
NumTasks == {1, 2}
BundleSizes == {1, 2}

\* default.client.bundlesize, the capacity given to both local queues.
DEFAULT_BUNDLESIZE == 1

None == <<>>
Some(v) == <<v>>

\* A bundlewait no run of the model ever sees elapse.
NeverElapses == MaxTime + 1
BundleWaits == {0, 1, NeverElapses}

\* DEFAULT_TEMPLATE: the command template, a bare placeholder.
DEFAULT_TEMPLATE == "{}"

VARIABLES
    task_file,      \* the command lines the server turns into tasks
    num_tasks,      \* ClientThread.num_tasks: the number of executors
    bundlesize,     \* ClientCollector.bundlesize
    bundlewait,     \* ClientCollector.bundlewait
    now,            \* the latest reading of datetime.now(), in whole seconds
    sent,           \* number of tasks the server has sent so far
    empties,        \* number of empty bundles the server has sent so far
    disconnected,   \* the server has put the null sentinel on `scheduled`
    scheduled,      \* QueueClient.scheduled: bundles in flight to the client
    completed,      \* QueueClient.completed: every bundle put, in order
    terminator,     \* QueueClient.terminator: every value put, in order
    inbound,        \* ClientThread.inbound
    outbound,       \* ClientThread.outbound
    sched_state,    \* ClientScheduler.state
    sched_bundle,   \* ClientScheduler.bundle
    sched_tasks,    \* ClientScheduler.tasks
    sched_task,     \* ClientScheduler.task
    final_task_id,  \* ClientScheduler.final_task_id
    exec_state,     \* TaskExecutor.state, per executor id
    exec_task,      \* TaskExecutor.task, per executor id
    process,        \* TaskExecutor.process, per executor id
    coll_state,     \* ClientCollector.state
    coll_tasks,     \* ClientCollector.tasks (the pending list)
    coll_bundle,    \* ClientCollector.bundle
    previous_send,  \* ClientCollector.previous_send
    client_pc,      \* where ClientThread.run stands
    signalled,      \* sentinels wait_executors has put on `inbound`
    endpoint,       \* the QueueClient context: "closed", "open", "released"
    error,          \* the exception ClientThread.run is leaving with, or None
    should_halt,    \* the halt each machine has been signalled, per machine
    caller,         \* where run_client stands: "join" or "raised"
    received,       \* history: the non-null bundles get_remote returned (ids)
    dispatched,     \* history: ids put on `inbound` by the scheduler
    cluster_mode,   \* Cluster.cluster_mode
    nodefile,       \* Cluster.nodefile: None, or the number of its host lines
    num_cores,      \* the num_cores of run_local: --num-cores, or the cpu count
    authkey,        \* the cache of the property Cluster.authkey
    server_invocation,  \* the key in the server's command line, once built
    client_invocation,  \* the key in the clients' command line, once built
    server_process,     \* the server's Popen object, once started
    client_processes,   \* the Popen objects of the clients started so far
    waited,         \* the clients the launcher has waited for so far
    cluster_pc,     \* where Cluster.run stands
    generated       \* history: the calls of secrets.token_hex so far

config_vars == <<task_file, num_tasks, bundlesize, bundlewait>>
server_vars == <<sent, empties, disconnected>>
sched_vars == <<sched_state, sched_bundle, sched_tasks, sched_task, final_task_id>>
exec_vars == <<exec_state, exec_task, process>>
coll_vars == <<coll_state, coll_tasks, coll_bundle, previous_send>>
client_vars == <<client_pc, signalled, endpoint, error>>
caller_vars == <<should_halt, caller>>
remote_vars == <<scheduled, completed, terminator>>
history_vars == <<received, dispatched>>
cluster_vars == <<cluster_mode, nodefile, num_cores, authkey, server_invocation,
                  client_invocation, server_process, client_processes, waited,
                  cluster_pc, generated>>

vars == <<task_file, num_tasks, bundlesize, bundlewait, now, sent, empties,
          disconnected, should_halt, caller,
          scheduled, completed, terminator, inbound, outbound,
          sched_state, sched_bundle, sched_tasks, sched_task, final_task_id,
          exec_state, exec_task, process,
          coll_state, coll_tasks, coll_bundle, previous_send,
          client_pc, signalled, endpoint, error, received, dispatched,
          cluster_mode, nodefile, num_cores, authkey, server_invocation,
          client_invocation, server_process, client_processes, waited,
          cluster_pc, generated>>

\* The state of one client process.
pipeline_vars == <<config_vars, now, server_vars, caller_vars, remote_vars,
                   inbound, outbound, sched_vars, exec_vars, coll_vars,
                   client_vars, history_vars>>

Executors == 1..num_tasks

----------------------------------------------------------------------------
\* Tasks and their codec.

\* The id the server gives its i-th task.
TaskId(i) == "t" \o ToString(i)

\* A task file of commands the shell is given: one that fails, one that
\* succeeds, one the shell cannot find, and so on.
ShellFile ==
    [i \in 1..MaxTasks |->
        IF i % 3 = 1 THEN "exit 7" ELSE IF i % 3 = 2 THEN "true" ELSE "nosuchcmd"]

\* The same file with a NUL byte in its first line.
NulFile == [i \in 1..MaxTasks |-> IF i = 1 THEN "\\0" ELSE ShellFile[i]]

\* A task as the server first sends it: id and args set, the rest absent.
\* The client host of a task is not modelled.
NewTask(i) ==
    [id |-> TaskId(i), args |-> task_file[i], command |-> None,
     start_time |-> None, completion_time |-> None, exit_status |-> None]

\* template.replace('{}', args), for a template that is the bare placeholder
Render(template, args) == IF template = "{}" THEN args ELSE template

\* Popen(command, shell=True) starts /bin/sh -c command, and raises
\* ValueError instead when the command holds a NUL byte.
Spawns(command) == command # "\\0"

\* The status the shell ends a command with: 127 for a command not found.
ShellStatus(command) ==
    IF command = "true" THEN 0 ELSE IF command = "exit 7" THEN 7 ELSE 127

\* Task.pack / Task.unpack: a task to its packed bytes and back.
Pack(task) == [packed |-> task]
Unpack(data) == data.packed

\* str.encode(): the UTF-8 bytes of a task id.
Encode(id) == [utf8 |-> id]

\* The ids of a sequence of tasks, and of a bundle of packed tasks.
Ids(tasks) == [i \in 1..Len(tasks) |-> tasks[i].id]
BundleIds(bundle) == [i \in 1..Len(bundle) |-> Unpack(bundle[i]).id]

\* queue.Queue(maxsize): a put succeeds only below capacity.
Full(queue) == Len(queue) >= DEFAULT_BUNDLESIZE

\* A machine's run has ended by itself: the machine reached HALT, or a
\* handler raised.
Terminated(state) == state \in {"HALT", "RAISED"}

----------------------------------------------------------------------------
\* The runs the model follows. A run with one executor starts at second 0
\* and the clock advances during it; a run with more executors lies within
\* the last second the model tells apart, where every reading of the clock
\* returns that second.
InitClient ==
    /\ num_tasks \in NumTasks
    /\ bundlesize \in BundleSizes
    /\ bundlewait \in BundleWaits
    /\ now \in {0, MaxTime}
    /\ num_tasks > 1 => now = MaxTime
    /\ sent = 0
    /\ empties = 0
    /\ disconnected = FALSE
    /\ scheduled = <<>>
    /\ completed = <<>>
    /\ terminator = <<>>
    /\ inbound = <<>>
    /\ outbound = <<>>
    /\ sched_state = "START"
    /\ sched_bundle = Some(<<>>)
    /\ sched_tasks = <<>>
    /\ sched_task = None
    /\ final_task_id = None
    /\ exec_state = [e \in Executors |-> "START"]
    /\ exec_task = [e \in Executors |-> None]
    /\ process = [e \in Executors |-> None]
    /\ coll_state = "START"
    /\ coll_tasks = <<>>
    /\ coll_bundle = <<>>
    /\ previous_send = 0
    /\ client_pc = "acquire"
    /\ signalled = 0
    /\ endpoint = "closed"
    /\ error = None
    /\ should_halt = [scheduler |-> FALSE, collector |-> FALSE,
                      executor |-> [e \in Executors |-> FALSE]]
    /\ caller = "join"
    /\ received = <<>>
    /\ dispatched = <<>>

\* The launcher as its class declares it, before any argument is parsed and
\* before run is called: what the launcher's variables are in a client that
\* was started on its own.
InitLauncherDefaults ==
    /\ cluster_mode = "local"
    /\ nodefile = None
    /\ num_cores = 0
    /\ authkey = None
    /\ server_invocation = None
    /\ client_invocation = None
    /\ server_process = None
    /\ client_processes = <<>>
    /\ waited = 0
    /\ cluster_pc = "run"
    /\ generated = 0

\* A run on a task file of shell commands.
Init == InitClient /\ task_file = ShellFile /\ InitLauncherDefaults

\* A run on a task file with a line no process can be spawned for.
InitSpawn == InitClient /\ task_file = NulFile /\ InitLauncherDefaults

\* The worker threads run once start_threads has started them.
Started == client_pc \notin {"acquire", "start_threads"}

\* Thread.join returns once the thread's run has ended: its machine has
\* terminated, or its run loop has seen the halt the machine was signalled.
\* A machine looks at the signal between two handlers.
SchedulerEnded == Terminated(sched_state) \/ should_halt.scheduler
ExecutorEnded(e) == Terminated(exec_state[e]) \/ should_halt.executor[e]
CollectorEnded == Terminated(coll_state) \/ should_halt.collector

----------------------------------------------------------------------------
\* The environment: the server and the child processes.

\* datetime.now() returns t: wall time never runs backwards, and the model
\* stops the clock at MaxTime.
Clock(t) == t \in now..MaxTime

\* The server puts a bundle of k fresh tasks on `scheduled`.
ServerSend(k) ==
    /\ ~disconnected
    /\ sent + k <= MaxTasks
    /\ scheduled' = Append(scheduled, Some([i \in 1..k |-> Pack(NewTask(sent + i))]))
    /\ sent' = sent + k
    /\ UNCHANGED <<config_vars, cluster_vars, caller_vars, now, empties, disconnected,
                   completed, terminator,
                   inbound, outbound, sched_vars, exec_vars, coll_vars,
                   client_vars, history_vars>>

\* The server puts the null sentinel on `scheduled` and sends nothing more.
ServerDisconnect ==
    /\ ~disconnected
    /\ scheduled' = Append(scheduled, None)
    /\ disconnected' = TRUE
    /\ UNCHANGED <<config_vars, cluster_vars, caller_vars, now, sent, empties, completed, terminator,
                   inbound, outbound, sched_vars, exec_vars, coll_vars,
                   client_vars, history_vars>>

\* The server puts a bundle of no tasks on `scheduled`.
ServerSendEmpty ==
    /\ ~disconnected
    /\ empties < MaxEmpty
    /\ scheduled' = Append(scheduled, Some(<<>>))
    /\ empties' = empties + 1
    /\ UNCHANGED <<config_vars, cluster_vars, caller_vars, now, sent, disconnected,
                   completed, terminator, inbound, outbound, sched_vars,
                   exec_vars, coll_vars, client_vars, history_vars>>

\* The child process of executor e exits.
ChildExit(e) ==
    /\ process[e] # None
    /\ process[e].returncode = None
    /\ process' = [process EXCEPT ![e].returncode = Some(ShellStatus(process[e].command))]
    /\ UNCHANGED <<config_vars, cluster_vars, caller_vars, now, server_vars, remote_vars,
                   inbound, outbound,
                   sched_vars, exec_state, exec_task, coll_vars, client_vars,
                   history_vars>>

----------------------------------------------------------------------------
\* ClientScheduler

SchedStart ==
    /\ Started
    /\ ~should_halt.scheduler
    /\ sched_state = "START"
    /\ sched_state' = "GET_REMOTE"
    /\ UNCHANGED <<config_vars, cluster_vars, caller_vars, now, server_vars, remote_vars,
                   inbound, outbound,
                   sched_bundle, sched_tasks, sched_task, final_task_id,
                   exec_vars, coll_vars, client_vars, history_vars>>

SchedGetRemote ==
    /\ Started
    /\ ~should_halt.scheduler
    /\ sched_state = "GET_REMOTE"
    /\ IF scheduled = <<>>
       THEN \* QueueEmpty after the timeout
            UNCHANGED <<scheduled, sched_bundle, sched_state, received>>
       ELSE /\ sched_bundle' = Head(scheduled)
            /\ scheduled' = Tail(scheduled)
            /\ IF Head(scheduled) # None
               THEN /\ sched_state' = "UNPACK"
                    /\ received' = Append(received, BundleIds(Head(scheduled)[1]))
               ELSE /\ sched_state' = "HALT"
                    /\ UNCHANGED received
    /\ UNCHANGED <<config_vars, cluster_vars, caller_vars, now, server_vars, completed, terminator,
                   inbound, outbound, sched_tasks, sched_task, final_task_id,
                   exec_vars, coll_vars, client_vars, dispatched>>

\* A scheduler that takes the terminal id from the head of the bundle.
SchedUnpack_FirstId ==
    /\ Started
    /\ ~should_halt.scheduler
    /\ sched_state = "UNPACK"
    /\ sched_tasks' = [i \in 1..Len(sched_bundle[1]) |-> Unpack(sched_bundle[1][i])]
    /\ IF sched_tasks' # <<>>
       THEN /\ final_task_id' = Some(sched_tasks'[1].id)
            /\ sched_state' = "POP_TASK"
       ELSE /\ sched_state' = "RAISED"
            /\ UNCHANGED final_task_id
    /\ UNCHANGED <<config_vars, cluster_vars, caller_vars, now, server_vars, remote_vars,
                   inbound, outbound,
                   sched_bundle, sched_task, exec_vars, coll_vars, client_vars,
                   history_vars>>

\* A scheduler that takes an empty bundle for a bundle with no last task.
SchedUnpack_NoLastTask ==
    /\ Started
    /\ ~should_halt.scheduler
    /\ sched_state = "UNPACK"
    /\ sched_tasks' = [i \in 1..Len(sched_bundle[1]) |-> Unpack(sched_bundle[1][i])]
    /\ final_task_id' = IF sched_tasks' # <<>>
                        THEN Some(sched_tasks'[Len(sched_tasks')].id)
                        ELSE None
    /\ sched_state' = "POP_TASK"
    /\ UNCHANGED <<config_vars, cluster_vars, caller_vars, now, server_vars, remote_vars,
                   inbound, outbound,
                   sched_bundle, sched_task, exec_vars, coll_vars, client_vars,
                   history_vars>>

\* tasks[-1] of an empty list raises IndexError, after self.tasks was
\* assigned and before final_task_id is: the exception is caught nowhere
\* and ends the scheduler's thread.
SchedUnpack ==
    /\ Started
    /\ ~should_halt.scheduler
    /\ sched_state = "UNPACK"
    /\ sched_tasks' = [i \in 1..Len(sched_bundle[1]) |-> Unpack(sched_bundle[1][i])]
    /\ IF sched_tasks' # <<>>
       THEN /\ final_task_id' = Some(sched_tasks'[Len(sched_tasks')].id)
            /\ sched_state' = "POP_TASK"
       ELSE /\ sched_state' = "RAISED"
            /\ UNCHANGED final_task_id
    /\ UNCHANGED <<config_vars, cluster_vars, caller_vars, now, server_vars, remote_vars,
                   inbound, outbound,
                   sched_bundle, sched_task, exec_vars, coll_vars, client_vars,
                   history_vars>>

SchedPopTask ==
    /\ Started
    /\ ~should_halt.scheduler
    /\ sched_state = "POP_TASK"
    /\ IF sched_tasks # <<>>
       THEN /\ sched_task' = Head(sched_tasks)
            /\ sched_tasks' = Tail(sched_tasks)
            /\ sched_state' = "PUT_LOCAL"
       ELSE \* IndexError
            /\ sched_state' = "GET_REMOTE"
            /\ UNCHANGED <<sched_task, sched_tasks>>
    /\ UNCHANGED <<config_vars, cluster_vars, caller_vars, now, server_vars, remote_vars,
                   inbound, outbound,
                   sched_bundle, final_task_id, exec_vars, coll_vars, client_vars,
                   history_vars>>

\* A scheduler that gives up the task in hand when `inbound` is full.
SchedPutLocal_DropOnFull ==
    /\ Started
    /\ ~should_halt.scheduler
    /\ sched_state = "PUT_LOCAL"
    /\ IF Full(inbound)
       THEN /\ sched_state' = "POP_TASK"
            /\ UNCHANGED <<inbound, dispatched>>
       ELSE /\ inbound' = Append(inbound, sched_task)
            /\ dispatched' = Append(dispatched, sched_task.id)
            /\ sched_state' = "POP_TASK"
    /\ UNCHANGED <<config_vars, cluster_vars, caller_vars, now, server_vars, remote_vars, outbound,
                   sched_bundle, sched_tasks, sched_task, final_task_id,
                   exec_vars, coll_vars, client_vars, received>>

\* A scheduler that turns to the server for more when `inbound` is full.
SchedPutLocal_FetchOnFull ==
    /\ Started
    /\ ~should_halt.scheduler
    /\ sched_state = "PUT_LOCAL"
    /\ IF Full(inbound)
       THEN /\ sched_state' = "GET_REMOTE"
            /\ UNCHANGED <<inbound, dispatched>>
       ELSE /\ inbound' = Append(inbound, sched_task)
            /\ dispatched' = Append(dispatched, sched_task.id)
            /\ sched_state' = "POP_TASK"
    /\ UNCHANGED <<config_vars, cluster_vars, caller_vars, now, server_vars, remote_vars, outbound,
                   sched_bundle, sched_tasks, sched_task, final_task_id,
                   exec_vars, coll_vars, client_vars, received>>

\* A scheduler that, kept waiting by a full `inbound`, looks at `scheduled`
\* and halts on the sentinel with its task still in hand.
SchedPutLocal_HaltOnSentinel ==
    /\ Started
    /\ ~should_halt.scheduler
    /\ sched_state = "PUT_LOCAL"
    /\ IF Full(inbound)
       THEN /\ IF scheduled # <<>> /\ Head(scheduled) = None
               THEN sched_state' = "HALT" /\ scheduled' = Tail(scheduled)
               ELSE UNCHANGED <<sched_state, scheduled>>
            /\ UNCHANGED <<inbound, dispatched>>
       ELSE /\ inbound' = Append(inbound, sched_task)
            /\ dispatched' = Append(dispatched, sched_task.id)
            /\ sched_state' = "POP_TASK"
            /\ UNCHANGED scheduled
    /\ UNCHANGED <<config_vars, cluster_vars, caller_vars, now, server_vars, completed, terminator,
                   outbound,
                   sched_bundle, sched_tasks, sched_task, final_task_id,
                   exec_vars, coll_vars, client_vars, received>>

SchedPutLocal ==
    /\ Started
    /\ ~should_halt.scheduler
    /\ sched_state = "PUT_LOCAL"
    /\ IF Full(inbound)
       THEN \* QueueFull after the timeout
            UNCHANGED <<inbound, sched_state, dispatched>>
       ELSE /\ inbound' = Append(inbound, sched_task)
            /\ dispatched' = Append(dispatched, sched_task.id)
            /\ sched_state' = "POP_TASK"
    /\ UNCHANGED <<config_vars, cluster_vars, caller_vars, now, server_vars, remote_vars, outbound,
                   sched_bundle, sched_tasks, sched_task, final_task_id,
                   exec_vars, coll_vars, client_vars, received>>

----------------------------------------------------------------------------
\* TaskExecutor, one per executor id e

ExecStart(e) ==
    /\ Started
    /\ ~should_halt.executor[e]
    /\ exec_state[e] = "START"
    /\ exec_state' = [exec_state EXCEPT ![e] = "GET_LOCAL"]
    /\ UNCHANGED <<config_vars, cluster_vars, caller_vars, now, server_vars, remote_vars,
                   inbound, outbound,
                   sched_vars, exec_task, process, coll_vars, client_vars,
                   history_vars>>

\* An executor that reads the head of `inbound` and leaves it there.
ExecGetLocal_Peek(e) ==
    /\ Started
    /\ ~should_halt.executor[e]
    /\ exec_state[e] = "GET_LOCAL"
    /\ IF inbound = <<>>
       THEN UNCHANGED <<inbound, exec_task, exec_state>>
       ELSE /\ exec_task' = [exec_task EXCEPT ![e] = Head(inbound)]
            /\ inbound' = IF Head(inbound) # None THEN inbound ELSE Tail(inbound)
            /\ exec_state' = [exec_state EXCEPT ![e] =
                    IF Head(inbound) # None THEN "START_TASK" ELSE "FINALIZE"]
    /\ UNCHANGED <<config_vars, cluster_vars, caller_vars, now, server_vars, remote_vars, outbound,
                   sched_vars, process, coll_vars, client_vars, history_vars>>

ExecGetLocal(e) ==
    /\ Started
    /\ ~should_halt.executor[e]
    /\ exec_state[e] = "GET_LOCAL"
    /\ IF inbound = <<>>
       THEN \* QueueEmpty after the timeout
            UNCHANGED <<inbound, exec_task, exec_state>>
       ELSE /\ exec_task' = [exec_task EXCEPT ![e] = Head(inbound)]
            /\ inbound' = Tail(inbound)
            /\ exec_state' = [exec_state EXCEPT ![e] =
                    IF Head(inbound) # None THEN "START_TASK" ELSE "FINALIZE"]
    /\ UNCHANGED <<config_vars, cluster_vars, caller_vars, now, server_vars, remote_vars, outbound,
                   sched_vars, process, coll_vars, client_vars, history_vars>>

\* After Popen the child process is running, its status not yet known. An
\* exception of Popen is caught nowhere: it ends the executor's thread.
ExecStartTask(e) ==
    /\ Started
    /\ ~should_halt.executor[e]
    /\ exec_state[e] = "START_TASK"
    /\ \E t \in 0..MaxTime :
            /\ Clock(t)
            /\ now' = t
            /\ exec_task' = [exec_task EXCEPT
                    ![e].command = Some(Render(DEFAULT_TEMPLATE, exec_task[e].args)),
                    ![e].start_time = Some(t)]
    /\ IF Spawns(exec_task'[e].command[1])
       THEN /\ process' = [process EXCEPT ![e] =
                    [command |-> exec_task'[e].command[1], returncode |-> None]]
            /\ exec_state' = [exec_state EXCEPT ![e] = "WAIT_TASK"]
       ELSE /\ exec_state' = [exec_state EXCEPT ![e] = "RAISED"]
            /\ UNCHANGED process
    /\ UNCHANGED <<config_vars, cluster_vars, caller_vars, server_vars, remote_vars, inbound, outbound,
                   sched_vars, coll_vars, client_vars, history_vars>>

\* An executor that goes on when the wait for its child has timed out.
ExecWaitTask_NoWait(e) ==
    /\ Started
    /\ ~should_halt.executor[e]
    /\ exec_state[e] = "WAIT_TASK"
    /\ IF process[e].returncode = None
       THEN /\ exec_state' = [exec_state EXCEPT ![e] = "PUT_LOCAL"]
            /\ UNCHANGED <<exec_task, now>>
       ELSE /\ \E t \in 0..MaxTime :
                    /\ Clock(t)
                    /\ now' = t
                    /\ exec_task' = [exec_task EXCEPT
                            ![e].exit_status = process[e].returncode,
                            ![e].completion_time = Some(t)]
            /\ exec_state' = [exec_state EXCEPT ![e] = "PUT_LOCAL"]
    /\ UNCHANGED <<config_vars, cluster_vars, caller_vars, server_vars, remote_vars, inbound, outbound,
                   sched_vars, process, coll_vars, client_vars, history_vars>>

\* An executor that shuts down when the wait for its child has timed out.
ExecWaitTask_FinalizeOnTimeout(e) ==
    /\ Started
    /\ ~should_halt.executor[e]
    /\ exec_state[e] = "WAIT_TASK"
    /\ IF process[e].returncode = None
       THEN /\ exec_state' = [exec_state EXCEPT ![e] = "FINALIZE"]
            /\ UNCHANGED <<exec_task, now>>
       ELSE /\ \E t \in 0..MaxTime :
                    /\ Clock(t)
                    /\ now' = t
                    /\ exec_task' = [exec_task EXCEPT
                            ![e].exit_status = process[e].returncode,
                            ![e].completion_time = Some(t)]
            /\ exec_state' = [exec_state EXCEPT ![e] = "PUT_LOCAL"]
    /\ UNCHANGED <<config_vars, cluster_vars, caller_vars, server_vars, remote_vars, inbound, outbound,
                   sched_vars, process, coll_vars, client_vars, history_vars>>

ExecWaitTask(e) ==
    /\ Started
    /\ ~should_halt.executor[e]
    /\ exec_state[e] = "WAIT_TASK"
    /\ IF process[e].returncode = None
       THEN \* TimeoutExpired
            UNCHANGED <<exec_task, exec_state, now>>
       ELSE /\ \E t \in 0..MaxTime :
                    /\ Clock(t)
                    /\ now' = t
                    /\ exec_task' = [exec_task EXCEPT
                            ![e].exit_status = process[e].returncode,
                            ![e].completion_time = Some(t)]
            /\ exec_state' = [exec_state EXCEPT ![e] = "PUT_LOCAL"]
    /\ UNCHANGED <<config_vars, cluster_vars, caller_vars, server_vars, remote_vars, inbound, outbound,
                   sched_vars, process, coll_vars, client_vars, history_vars>>

\* An executor that gives up the finished task when `outbound` is full.
ExecPutLocal_DropOnFull(e) ==
    /\ Started
    /\ ~should_halt.executor[e]
    /\ exec_state[e] = "PUT_LOCAL"
    /\ IF Full(outbound)
       THEN /\ exec_state' = [exec_state EXCEPT ![e] = "GET_LOCAL"]
            /\ UNCHANGED outbound
       ELSE /\ outbound' = Append(outbound, exec_task[e])
            /\ exec_state' = [exec_state EXCEPT ![e] = "GET_LOCAL"]
    /\ UNCHANGED <<config_vars, cluster_vars, caller_vars, now, server_vars, remote_vars, inbound,
                   sched_vars, exec_task, process, coll_vars, client_vars,
                   history_vars>>

ExecPutLocal(e) ==
    /\ Started
    /\ ~should_halt.executor[e]
    /\ exec_state[e] = "PUT_LOCAL"
    /\ IF Full(outbound)
       THEN \* QueueFull after the timeout
            UNCHANGED <<outbound, exec_state>>
       ELSE /\ outbound' = Append(outbound, exec_task[e])
            /\ exec_state' = [exec_state EXCEPT ![e] = "GET_LOCAL"]
    /\ UNCHANGED <<config_vars, cluster_vars, caller_vars, now, server_vars, remote_vars, inbound,
                   sched_vars, exec_task, process, coll_vars, client_vars,
                   history_vars>>

ExecFinalize(e) ==
    /\ Started
    /\ ~should_halt.executor[e]
    /\ exec_state[e] = "FINALIZE"
    /\ exec_state' = [exec_state EXCEPT ![e] = "HALT"]
    /\ UNCHANGED <<config_vars, cluster_vars, caller_vars, now, server_vars, remote_vars,
                   inbound, outbound,
                   sched_vars, exec_task, process, coll_vars, client_vars,
                   history_vars>>

----------------------------------------------------------------------------
\* ClientCollector

CollStart ==
    /\ Started
    /\ ~should_halt.collector
    /\ coll_state = "START"
    /\ \E t \in 0..MaxTime : Clock(t) /\ now' = t /\ previous_send' = t
    /\ coll_state' = "GET_LOCAL"
    /\ UNCHANGED <<config_vars, cluster_vars, caller_vars, server_vars, remote_vars, inbound, outbound,
                   sched_vars, exec_vars, coll_tasks, coll_bundle, client_vars,
                   history_vars>>

\* A collector that restarts its timer when it appends a task.
CollGetLocal_RestartTimer ==
    /\ Started
    /\ ~should_halt.collector
    /\ coll_state = "GET_LOCAL"
    /\ IF outbound = <<>>
       THEN /\ coll_state' = "CHECK_BUNDLE"
            /\ UNCHANGED <<outbound, coll_tasks, previous_send, now>>
       ELSE /\ outbound' = Tail(outbound)
            /\ IF Head(outbound) # None
               THEN /\ coll_tasks' = Append(coll_tasks, Head(outbound))
                    /\ \E t \in 0..MaxTime : Clock(t) /\ now' = t /\ previous_send' = t
                    /\ coll_state' = "CHECK_BUNDLE"
               ELSE /\ coll_state' = "FINALIZE"
                    /\ UNCHANGED <<coll_tasks, previous_send, now>>
    /\ UNCHANGED <<config_vars, cluster_vars, caller_vars, server_vars, remote_vars, inbound,
                   sched_vars, exec_vars, coll_bundle, client_vars,
                   history_vars>>

CollGetLocal ==
    /\ Started
    /\ ~should_halt.collector
    /\ coll_state = "GET_LOCAL"
    /\ IF outbound = <<>>
       THEN \* QueueEmpty after the timeout
            /\ coll_state' = "CHECK_BUNDLE"
            /\ UNCHANGED <<outbound, coll_tasks>>
       ELSE /\ outbound' = Tail(outbound)
            /\ IF Head(outbound) # None
               THEN /\ coll_tasks' = Append(coll_tasks, Head(outbound))
                    /\ coll_state' = "CHECK_BUNDLE"
               ELSE /\ coll_state' = "FINALIZE"
                    /\ UNCHANGED coll_tasks
    /\ UNCHANGED <<config_vars, cluster_vars, caller_vars, now, server_vars, remote_vars, inbound,
                   sched_vars, exec_vars, coll_bundle, previous_send, client_vars,
                   history_vars>>

\* A check_bundle that flushes whatever is pending, whatever the bundlesize.
CheckBundle_AnySize(t) ==
    LET since_last == t - previous_send
    IN  IF Len(coll_tasks) >= 1 THEN "PACK_BUNDLE"
        ELSE IF since_last >= bundlewait THEN "PACK_BUNDLE"
        ELSE "GET_LOCAL"

\* A check_bundle that flushes by time only after more than bundlewait.
CheckBundle_StrictWait(t) ==
    LET since_last == t - previous_send
    IN  IF Len(coll_tasks) >= bundlesize THEN "PACK_BUNDLE"
        ELSE IF since_last > bundlewait THEN "PACK_BUNDLE"
        ELSE "GET_LOCAL"

\* A check_bundle that flushes by size only once the pending list has
\* grown past bundlesize.
CheckBundle_PastSize(t) ==
    LET since_last == t - previous_send
    IN  IF Len(coll_tasks) > bundlesize THEN "PACK_BUNDLE"
        ELSE IF since_last >= bundlewait THEN "PACK_BUNDLE"
        ELSE "GET_LOCAL"

\* The state check_bundle returns when datetime.now() is t.
CheckBundle(t) ==
    LET since_last == t - previous_send
    IN  IF Len(coll_tasks) >= bundlesize THEN "PACK_BUNDLE"
        ELSE IF since_last >= bundlewait THEN "PACK_BUNDLE"
        ELSE "GET_LOCAL"

CollCheckBundle ==
    /\ Started
    /\ ~should_halt.collector
    /\ coll_state = "CHECK_BUNDLE"
    /\ \E t \in 0..MaxTime : Clock(t) /\ now' = t /\ coll_state' = CheckBundle(t)
    /\ UNCHANGED <<config_vars, cluster_vars, caller_vars, server_vars, remote_vars, inbound, outbound,
                   sched_vars, exec_vars, coll_tasks, coll_bundle, previous_send,
                   client_vars, history_vars>>

\* A collector that packs the pending tasks last to first.
CollPackBundle_Reversed ==
    /\ Started
    /\ ~should_halt.collector
    /\ coll_state = "PACK_BUNDLE"
    /\ coll_bundle' = [i \in 1..Len(coll_tasks) |->
                            Pack(coll_tasks[Len(coll_tasks) + 1 - i])]
    /\ coll_state' = "PUT_REMOTE"
    /\ UNCHANGED <<config_vars, cluster_vars, caller_vars, now, server_vars, remote_vars,
                   inbound, outbound,
                   sched_vars, exec_vars, coll_tasks, previous_send, client_vars,
                   history_vars>>

CollPackBundle ==
    /\ Started
    /\ ~should_halt.collector
    /\ coll_state = "PACK_BUNDLE"
    /\ coll_bundle' = [i \in 1..Len(coll_tasks) |-> Pack(coll_tasks[i])]
    /\ coll_state' = "PUT_REMOTE"
    /\ UNCHANGED <<config_vars, cluster_vars, caller_vars, now, server_vars, remote_vars,
                   inbound, outbound,
                   sched_vars, exec_vars, coll_tasks, previous_send, client_vars,
                   history_vars>>

\* A put_remote that pushes its bundle out whether or not it holds a task.
PutRemote_Unconditional ==
    /\ completed' = Append(completed, coll_bundle)
    /\ coll_tasks' = <<>>
    /\ coll_bundle' = <<>>
    /\ \E t \in 0..MaxTime : Clock(t) /\ now' = t /\ previous_send' = t

\* The body of put_remote, before its return. The put on the remote queue
\* serialises the bundle, so the clear() after it leaves the sent copy whole.
PutRemote ==
    IF coll_bundle # <<>>
    THEN /\ completed' = Append(completed, coll_bundle)
         /\ coll_tasks' = <<>>
         /\ coll_bundle' = <<>>
         /\ \E t \in 0..MaxTime : Clock(t) /\ now' = t /\ previous_send' = t
    ELSE UNCHANGED <<completed, coll_tasks, coll_bundle, previous_send, now>>

CollPutRemote ==
    /\ Started
    /\ ~should_halt.collector
    /\ coll_state = "PUT_REMOTE"
    /\ PutRemote
    /\ coll_state' = "GET_LOCAL"
    /\ UNCHANGED <<config_vars, cluster_vars, caller_vars, server_vars, scheduled, terminator,
                   inbound, outbound, sched_vars, exec_vars, client_vars,
                   history_vars>>

CollFinalize ==
    /\ Started
    /\ ~should_halt.collector
    /\ coll_state = "FINALIZE"
    /\ PutRemote
    /\ coll_state' = "HALT"
    /\ UNCHANGED <<config_vars, cluster_vars, caller_vars, server_vars, scheduled, terminator,
                   inbound, outbound, sched_vars, exec_vars, client_vars,
                   history_vars>>

----------------------------------------------------------------------------
\* ClientThread.run, the coordinator

\* `with self.client:` entered
ClientAcquire ==
    /\ client_pc = "acquire"
    /\ endpoint' = "open"
    /\ client_pc' = "start_threads"
    /\ UNCHANGED <<config_vars, cluster_vars, caller_vars, now, server_vars, remote_vars,
                   inbound, outbound,
                   sched_vars, exec_vars, coll_vars, signalled, error, history_vars>>

ClientStartThreads ==
    /\ client_pc = "start_threads"
    /\ client_pc' = "wait_scheduler"
    /\ UNCHANGED <<config_vars, cluster_vars, caller_vars, now, server_vars, remote_vars,
                   inbound, outbound,
                   sched_vars, exec_vars, coll_vars, signalled, endpoint, error,
                   history_vars>>

ClientWaitScheduler ==
    /\ client_pc = "wait_scheduler"
    /\ SchedulerEnded
    /\ client_pc' = "signal_executors"
    /\ UNCHANGED <<config_vars, cluster_vars, caller_vars, now, server_vars, remote_vars,
                   inbound, outbound,
                   sched_vars, exec_vars, coll_vars, signalled, endpoint, error,
                   history_vars>>

\* wait_executors, first loop: one blocking put of None per executor
ClientSignalExecutor ==
    /\ client_pc = "signal_executors"
    /\ ~Full(inbound)
    /\ inbound' = Append(inbound, None)
    /\ signalled' = signalled + 1
    /\ client_pc' = IF signalled' = num_tasks THEN "join_executors"
                    ELSE "signal_executors"
    /\ UNCHANGED <<config_vars, cluster_vars, caller_vars, now, server_vars, remote_vars, outbound,
                   sched_vars, exec_vars, coll_vars, endpoint, error, history_vars>>

\* wait_executors, second loop: join every executor thread
ClientJoinExecutors ==
    /\ client_pc = "join_executors"
    /\ \A e \in Executors : ExecutorEnded(e)
    /\ client_pc' = "signal_collector"
    /\ UNCHANGED <<config_vars, cluster_vars, caller_vars, now, server_vars, remote_vars,
                   inbound, outbound,
                   sched_vars, exec_vars, coll_vars, signalled, endpoint, error,
                   history_vars>>

\* wait_collector: the blocking put of None on `outbound`
ClientSignalCollector ==
    /\ client_pc = "signal_collector"
    /\ ~Full(outbound)
    /\ outbound' = Append(outbound, None)
    /\ client_pc' = "join_collector"
    /\ UNCHANGED <<config_vars, cluster_vars, caller_vars, now, server_vars, remote_vars, inbound,
                   sched_vars, exec_vars, coll_vars, signalled, endpoint, error,
                   history_vars>>

\* A coordinator that does not join the collector before going on.
ClientJoinCollector_NoJoin ==
    /\ client_pc = "join_collector"
    /\ client_pc' = "register_final_task"
    /\ UNCHANGED <<config_vars, cluster_vars, caller_vars, now, server_vars, remote_vars,
                   inbound, outbound,
                   sched_vars, exec_vars, coll_vars, signalled, endpoint, error,
                   history_vars>>

\* wait_collector: collector.join()
ClientJoinCollector ==
    /\ client_pc = "join_collector"
    /\ CollectorEnded
    /\ client_pc' = "register_final_task"
    /\ UNCHANGED <<config_vars, cluster_vars, caller_vars, now, server_vars, remote_vars,
                   inbound, outbound,
                   sched_vars, exec_vars, coll_vars, signalled, endpoint, error,
                   history_vars>>

\* A coordinator whose run is left by the exception without the endpoint
\* being released.
ClientRegisterFinalTask_Unscoped ==
    /\ client_pc = "register_final_task"
    /\ IF final_task_id = None
       THEN /\ error' = Some("AttributeError")
            /\ client_pc' = "failed"
            /\ UNCHANGED terminator
       ELSE /\ terminator' = Append(terminator, Encode(final_task_id[1]))
            /\ client_pc' = "release"
            /\ UNCHANGED error
    /\ UNCHANGED <<config_vars, cluster_vars, caller_vars, now, server_vars, scheduled, completed,
                   inbound, outbound, sched_vars, exec_vars, coll_vars,
                   signalled, endpoint, history_vars>>

\* register_final_task: None has no encode(), so the call raises
\* AttributeError before the put when no bundle was ever unpacked.
ClientRegisterFinalTask ==
    /\ client_pc = "register_final_task"
    /\ IF final_task_id = None
       THEN /\ error' = Some("AttributeError")
            /\ UNCHANGED terminator
       ELSE /\ terminator' = Append(terminator, Encode(final_task_id[1]))
            /\ UNCHANGED error
    /\ client_pc' = "release"
    /\ UNCHANGED <<config_vars, cluster_vars, caller_vars, now, server_vars, scheduled, completed,
                   inbound, outbound, sched_vars, exec_vars, coll_vars,
                   signalled, endpoint, history_vars>>

\* `with self.client:` left, normally or by the exception
ClientRelease ==
    /\ client_pc = "release"
    /\ endpoint' = "released"
    /\ client_pc' = IF error = None THEN "stopped" ELSE "failed"
    /\ UNCHANGED <<config_vars, cluster_vars, caller_vars, now, server_vars, remote_vars,
                   inbound, outbound,
                   sched_vars, exec_vars, coll_vars, signalled, error, history_vars>>

----------------------------------------------------------------------------
\* run_client, the caller of the coordinator

\* An exception surfaces from thread.join() while the coordinator runs: the
\* handler calls ClientThread.stop, which stops the scheduler thread and the
\* collector thread (each signals halt to its machine), and re-raises.
RunClientExcept ==
    /\ caller = "join"
    /\ client_pc \notin {"stopped", "failed"}
    /\ should_halt' = [should_halt EXCEPT !.scheduler = TRUE, !.collector = TRUE]
    /\ caller' = "raised"
    /\ UNCHANGED <<config_vars, cluster_vars, now, server_vars, remote_vars, inbound, outbound,
                   sched_vars, exec_vars, coll_vars, client_vars, history_vars>>

----------------------------------------------------------------------------
\* Cluster.run, the launcher. Of a command line the model keeps the
\* --authkey it carries; of a process, that key and its return code.

\* The number of processes the launcher starts for the clients: one per
\* core, one ssh per host line, one mpiexec, or one client that runs parsl.
NumClients ==
    IF cluster_mode = "local" THEN num_cores
    ELSE IF cluster_mode = "ssh" THEN nodefile[1]
    ELSE 1

\* The program the launcher starts for a client.
ClientProgram ==
    IF cluster_mode = "ssh" THEN "ssh"
    ELSE IF cluster_mode = "mpi" THEN "mpiexec"
    ELSE "hyper-shell client"

\* A launcher whose authkey is computed anew at every read.
ReadAuthkey_Uncached(k) ==
    /\ k \in Keys
    /\ generated' = generated + 1
    /\ UNCHANGED authkey

\* self.authkey evaluates to k: the cached value, or on the first read a
\* fresh token that is cached from then on.
ReadAuthkey(k) ==
    IF authkey = None
    THEN /\ k \in Keys
         /\ authkey' = Some(k)
         /\ generated' = generated + 1
    ELSE /\ k = authkey[1]
         /\ UNCHANGED <<authkey, generated>>

\* run: the mode's method is called; run_ssh raises ArgumentError without
\* a nodefile, before anything is started.
ClusterRun ==
    /\ cluster_pc = "run"
    /\ cluster_pc' = IF cluster_mode = "ssh" /\ nodefile = None
                     THEN "failed" ELSE "server_invocation"
    /\ UNCHANGED <<pipeline_vars, cluster_mode, nodefile, num_cores, authkey,
                   server_invocation, client_invocation, server_process,
                   client_processes, waited, generated>>

ClusterServerInvocation ==
    /\ cluster_pc = "server_invocation"
    /\ \E k \in Keys :
            /\ ReadAuthkey(k)
            /\ server_invocation' = Some([authkey |-> k])
    /\ cluster_pc' = "start_server"
    /\ UNCHANGED <<pipeline_vars, cluster_mode, nodefile, num_cores,
                   client_invocation, server_process, client_processes, waited>>

ClusterStartServer ==
    /\ cluster_pc = "start_server"
    /\ server_process' = Some([authkey |-> server_invocation[1].authkey,
                               returncode |-> None])
    /\ cluster_pc' = "client_invocation"
    /\ UNCHANGED <<pipeline_vars, cluster_mode, nodefile, num_cores, authkey,
                   server_invocation, client_invocation, client_processes,
                   waited, generated>>

ClusterClientInvocation ==
    /\ cluster_pc = "client_invocation"
    /\ \E k \in Keys :
            /\ ReadAuthkey(k)
            /\ client_invocation' = Some([authkey |-> k])
    /\ cluster_pc' = "start_clients"
    /\ UNCHANGED <<pipeline_vars, cluster_mode, nodefile, num_cores,
                   server_invocation, server_process, client_processes, waited>>

\* One pass of the loop that starts the clients; with no client to start,
\* both loops are passed over.
ClusterStartClient ==
    /\ cluster_pc = "start_clients"
    /\ IF NumClients = 0
       THEN /\ cluster_pc' = "wait_server"
            /\ UNCHANGED client_processes
       ELSE /\ client_processes' = Append(client_processes,
                    [program |-> ClientProgram,
                     authkey |-> client_invocation[1].authkey,
                     returncode |-> None])
            /\ cluster_pc' = IF Len(client_processes') = NumClients
                             THEN "wait_clients" ELSE "start_clients"
    /\ UNCHANGED <<pipeline_vars, cluster_mode, nodefile, num_cores, authkey,
                   server_invocation, client_invocation, server_process,
                   waited, generated>>

\* One pass of the loop that waits for the clients, in the order they were
\* started: client.wait() returns once that client has exited.
ClusterWaitClient ==
    /\ cluster_pc = "wait_clients"
    /\ client_processes[waited + 1].returncode # None
    /\ waited' = waited + 1
    /\ cluster_pc' = IF waited' = Len(client_processes)
                     THEN "wait_server" ELSE "wait_clients"
    /\ UNCHANGED <<pipeline_vars, cluster_mode, nodefile, num_cores, authkey,
                   server_invocation, client_invocation, server_process,
                   client_processes, generated>>

\* server_process.wait()
ClusterWaitServer ==
    /\ cluster_pc = "wait_server"
    /\ server_process[1].returncode # None
    /\ cluster_pc' = "done"
    /\ UNCHANGED <<pipeline_vars, cluster_mode, nodefile, num_cores, authkey,
                   server_invocation, client_invocation, server_process,
                   client_processes, waited, generated>>

\* The server process exits.
ServerProcessExit ==
    /\ server_process # None
    /\ server_process[1].returncode = None
    /\ server_process' = Some([server_process[1] EXCEPT !.returncode = Some(0)])
    /\ UNCHANGED <<pipeline_vars, cluster_mode, nodefile, num_cores, authkey,
                   server_invocation, client_invocation, client_processes,
                   waited, cluster_pc, generated>>

\* The i-th process started for the clients exits.
ClientProcessExit(i) ==
    /\ i \in DOMAIN client_processes
    /\ client_processes[i].returncode = None
    /\ client_processes' = [client_processes EXCEPT ![i].returncode = Some(0)]
    /\ UNCHANGED <<pipeline_vars, cluster_mode, nodefile, num_cores, authkey,
                   server_invocation, client_invocation, server_process,
                   waited, cluster_pc, generated>>

\* The launcher after its arguments are parsed. --nodefile and --num-cores
\* exclude each other; the launcher is a process of its own, in which no
\* client pipeline runs.
InitCluster ==
    /\ cluster_mode \in ClusterModes
    /\ nodefile \in IF cluster_mode \in {"ssh", "mpi"}
                    THEN {None} \cup {Some(n) : n \in 0..MaxClients}
                    ELSE {None}
    /\ num_cores \in IF cluster_mode = "local" THEN 0..MaxClients ELSE {0}
    /\ authkey = None
    /\ server_invocation = None
    /\ client_invocation = None
    /\ server_process = None
    /\ client_processes = <<>>
    /\ waited = 0
    /\ cluster_pc = "run"
    /\ generated = 0
    /\ InitClient
    /\ task_file = ShellFile
    /\ num_tasks = 1
    /\ bundlesize = 1
    /\ bundlewait = 0
    /\ now = 0

ClusterNext ==
    \/ ClusterRun \/ ClusterServerInvocation \/ ClusterStartServer
    \/ ClusterClientInvocation \/ ClusterStartClient \/ ClusterWaitClient
    \/ ClusterWaitServer

NextCluster ==
    \/ ClusterNext
    \/ ServerProcessExit
    \/ \E i \in 1..MaxClients : ClientProcessExit(i)

SpecCluster == InitCluster /\ [][NextCluster]_vars

----------------------------------------------------------------------------
SchedulerNext ==
    SchedStart \/ SchedGetRemote \/ SchedUnpack \/ SchedPopTask \/ SchedPutLocal

ExecutorNext(e) ==
    \/ ExecStart(e) \/ ExecGetLocal(e) \/ ExecStartTask(e)
    \/ ExecWaitTask(e) \/ ExecPutLocal(e) \/ ExecFinalize(e)

CollectorNext ==
    \/ CollStart \/ CollGetLocal \/ CollCheckBundle
    \/ CollPackBundle \/ CollPutRemote \/ CollFinalize

ClientNext ==
    \/ ClientAcquire \/ ClientStartThreads \/ ClientWaitScheduler
    \/ ClientSignalExecutor \/ ClientJoinExecutors \/ ClientSignalCollector
    \/ ClientJoinCollector \/ ClientRegisterFinalTask \/ ClientRelease

Next ==
    \/ \E k \in 1..MaxTasks : ServerSend(k)
    \/ ServerDisconnect
    \/ \E e \in Executors : ChildExit(e)
    \/ SchedulerNext
    \/ \E e \in Executors : ExecutorNext(e)
    \/ CollectorNext
    \/ ClientNext

Spec == Init /\ [][Next]_vars

\* The client fed by a server that also sends empty bundles. What the
\* scheduler does with a bundle does not depend on the collector's settings:
\* these runs are followed for a collector that returns every task at once.
NextEmpty == Next \/ ServerSendEmpty

InitEmpty == Init /\ bundlesize = 1 /\ bundlewait = 0

SpecEmpty == InitEmpty /\ [][NextEmpty]_vars

\* The client under a caller whose wait may be cut short by an exception.
NextStop == Next \/ RunClientExcept

SpecStop == Init /\ [][NextStop]_vars

SpecSpawn == InitSpawn /\ [][Next]_vars

\* Every thread is scheduled again and again, and every child process exits.
Fairness ==
    /\ WF_vars(SchedulerNext)
    /\ WF_vars(CollectorNext)
    /\ WF_vars(ClientNext)
    /\ \A e \in UNION {1..n : n \in NumTasks} :
            /\ WF_vars(e \in Executors /\ ExecutorNext(e))
            /\ WF_vars(e \in Executors /\ ChildExit(e))

FairSpec == Init /\ [][Next]_vars /\ Fairness

----------------------------------------------------------------------------
\* Vocabulary of the properties.

Last(seq) == seq[Len(seq)]

RECURSIVE Flatten(_)
Flatten(seqs) == IF seqs = <<>> THEN <<>> ELSE Head(seqs) \o Flatten(Tail(seqs))

Count(seq, x) == Cardinality({i \in DOMAIN seq : seq[i] = x})

Elements(seq) == {seq[i] : i \in DOMAIN seq}

SameBag(s, t) == \A x \in Elements(s) \cup Elements(t) : Count(s, x) = Count(t, x)

\* The ids of the tasks in the bundles put on `completed`, in order.
CompletedIds == Flatten([i \in DOMAIN completed |-> BundleIds(completed[i])])

\* The ids of the tasks received on `scheduled`, in order.
ReceivedIds == Flatten(received)

\* ClientThread.run has ended.
ClientStopped == client_pc \in {"stopped", "failed"}

----------------------------------------------------------------------------
\* C1: once the client has stopped, the task ids put on `completed` are, as
\* a multiset, the task ids received on `scheduled`: every received task
\* has come back in some bundle.
C1_CompletedEqualsScheduled ==
    ClientStopped => SameBag(CompletedIds, ReceivedIds)

\* C2: a FINALIZE step entered with a non-empty pending list puts exactly
\* those tasks, packed, on `completed` as one bundle on its way to HALT.
C2_FinalizeFlushesPending ==
    [][(coll_state = "FINALIZE" /\ coll_state' = "HALT" /\ coll_tasks # <<>>)
        => completed' = Append(completed,
                               [i \in 1..Len(coll_tasks) |-> Pack(coll_tasks[i])])]_vars

\* C2 is reached: the collector stands in FINALIZE with a task pending.
C2_Witness == coll_state = "FINALIZE" /\ coll_tasks # <<>>

\* C3: whatever is put on `terminator` is the encoded id of the last task of
\* the last bundle received on `scheduled`.
C3_TerminatorIsLastReceived ==
    \A i \in DOMAIN terminator :
        /\ received # <<>>
        /\ terminator[i] = Encode(Last(Last(received)))

\* C3 is reached with the terminal task not the last one completed.
C3_Witness ==
    /\ terminator # <<>>
    /\ Len(CompletedIds) = Len(ReceivedIds)
    /\ Last(CompletedIds) # Last(Last(received))

\* Where the shutdown stands, read off the state: no event of the shutdown
\* has happened before the events that are to precede it.
C4_OrderNow ==
    /\ signalled > 0 => Terminated(sched_state)
    /\ (\E e \in Executors : exec_state[e] \in {"FINALIZE", "HALT"}) => signalled > 0
    /\ ((\E i \in DOMAIN outbound : outbound[i] = None)
            \/ coll_state \in {"FINALIZE", "HALT"})
        => /\ signalled = num_tasks
           /\ \A e \in Executors : Terminated(exec_state[e])
    /\ terminator # <<>> => Terminated(coll_state)
    /\ endpoint = "released" => (terminator # <<>> \/ error # None)

\* C4: the shutdown events keep their order. A sentinel is on `inbound`
\* only after the scheduler has terminated; an executor finalises only after
\* a sentinel was put; the sentinel of `outbound` is put, and the collector
\* finalises, only after all N sentinels were put and every executor has
\* terminated; the terminator is put only after the collector has
\* terminated and while the endpoint is open; the endpoint is released only
\* after register_final_task; and no put on `completed` follows the put on
\* `terminator`.
C4_ShutdownOrder ==
    /\ []C4_OrderNow
    /\ [][terminator' # terminator => (endpoint = "open" /\ endpoint' = "open")]_vars
    /\ [][terminator # <<>> => completed' = completed]_vars

\* C4 is reached: a shutdown that returned a bundle and released the endpoint.
C4_Witness ==
    /\ endpoint = "released"
    /\ terminator # <<>>
    /\ completed # <<>>

\* C5: once the endpoint is released, exactly one message has been put on
\* `terminator`.
C5_OneTerminator == endpoint = "released" => Len(terminator) = 1

\* C5 is reached: the sentinel was the first thing received, and the
\* endpoint is released.
C5_Witness == endpoint = "released" /\ received = <<>>

\* Every worker machine stands in HALT.
AllHalted ==
    /\ sched_state = "HALT"
    /\ \A e \in Executors : exec_state[e] = "HALT"
    /\ coll_state = "HALT"

\* C6: once the server has sent the null sentinel, the client eventually
\* stops: every machine in HALT, the terminator published, the endpoint
\* released.
C6_EventuallyStops ==
    disconnected ~> (AllHalted /\ Len(terminator) = 1 /\ endpoint = "released")

\* The part of C6 that is about blocking: once the server has sent the null
\* sentinel, every machine halts and the endpoint is released.
ShutdownCompletes == disconnected ~> (AllHalted /\ endpoint = "released")

\* C7: with a bundlewait that never elapses, every bundle put on
\* `completed` before the collector has shut down holds exactly bundlesize
\* tasks.
C7_ExactBundles ==
    (bundlewait = NeverElapses /\ coll_state # "HALT")
        => \A i \in DOMAIN completed : Len(completed[i]) = bundlesize

\* C7 is reached: a bundle of two was put under a bundlesize of two.
C7_Witness ==
    /\ bundlewait = NeverElapses
    /\ bundlesize = 2
    /\ coll_state # "HALT"
    /\ completed # <<>>

\* C8: with bundlewait = 0 the pending list is empty whenever the collector
\* stands in GET_LOCAL.
C8_FlushedEachCycle ==
    (bundlewait = 0 /\ coll_state = "GET_LOCAL") => coll_tasks = <<>>

\* C8 is reached: under a bundlesize of two a single task went out alone,
\* and the collector is back in GET_LOCAL.
C8_Witness ==
    /\ bundlewait = 0
    /\ bundlesize = 2
    /\ coll_state = "GET_LOCAL"
    /\ completed # <<>>
    /\ Len(completed[1]) = 1

\* The ids of the tasks the scheduler has received and not yet put on
\* `inbound`, in the order it will put them.
SchedHolds ==
    IF sched_state = "UNPACK" THEN BundleIds(sched_bundle[1])
    ELSE IF sched_state = "PUT_LOCAL" THEN <<sched_task.id>> \o Ids(sched_tasks)
    ELSE Ids(sched_tasks)

\* C9: the tasks put on `inbound` so far, followed by those the scheduler
\* still holds, are the received bundles concatenated in arrival order; a
\* halted scheduler holds none.
C9_DispatchInOrder ==
    /\ dispatched \o SchedHolds = ReceivedIds
    /\ sched_state = "HALT" => dispatched = ReceivedIds

\* C9 is reached: the scheduler waits on a full `inbound` with the second
\* task of a bundle in hand.
C9_Witness ==
    /\ sched_state = "PUT_LOCAL"
    /\ Full(inbound)
    /\ dispatched = <<"t1">>
    /\ sched_task.id = "t2"
    /\ Len(sched_bundle[1]) = 2

\* The tasks that have left an executor: on `outbound`, pending in the
\* collector, or in a bundle put on `completed`.
Forwarded ==
    {outbound[i] : i \in {j \in DOMAIN outbound : outbound[j] # None}}
        \cup Elements(coll_tasks)
        \cup UNION {{Unpack(completed[i][j]) : j \in DOMAIN completed[i]} :
                        i \in DOMAIN completed}

\* Every forwarded task carries the status its command ended with.
ActualStatusForwarded ==
    \A task \in Forwarded :
        task.exit_status = Some(ShellStatus(Render(DEFAULT_TEMPLATE, task.args)))

\* C10: a failing task is not fatal to its executor, and every task that has
\* left an executor carries the status its command ended with.
C10_FailureForwarded ==
    /\ \A e \in Executors : exec_state[e] # "RAISED"
    /\ ActualStatusForwarded

\* A task that has been run to its end: the status of its child is set, and
\* so are the two timestamps, the completion no earlier than the start.
Finished(task) ==
    /\ task.exit_status # None
    /\ task.start_time # None
    /\ task.completion_time # None
    /\ task.completion_time[1] >= task.start_time[1]

\* C11: every task that has left an executor (on `outbound`, pending in the
\* collector, or in a bundle put on `completed`) has its exit status, its
\* start timestamp and its completion timestamp set, with completion >=
\* start; and an executor that stands before its put on `outbound` holds a
\* task whose child process has exited.
C11_FinishedBeforeOutbound ==
    /\ \A task \in Forwarded : Finished(task)
    /\ \A e \in Executors :
            exec_state[e] = "PUT_LOCAL"
                => /\ process[e].returncode # None
                   /\ process[e].command = exec_task[e].command[1]
                   /\ Finished(exec_task[e])

\* C11 is reached: a task that started in one second and completed in a
\* later one has come back in a bundle.
C11_Witness ==
    \E i \in DOMAIN completed : \E j \in DOMAIN completed[i] :
        LET task == Unpack(completed[i][j])
        IN  task.completion_time[1] > task.start_time[1]

\* C12: the capacity of `inbound` and of `outbound` is the bundlesize the
\* client was configured with: a queue refuses a put exactly when it holds
\* bundlesize items, and never holds more.
C12_CapacityIsBundlesize ==
    /\ Full(inbound) <=> Len(inbound) >= bundlesize
    /\ Full(outbound) <=> Len(outbound) >= bundlesize
    /\ Len(inbound) <= bundlesize
    /\ Len(outbound) <= bundlesize

\* C12 is reached: under a bundlesize of two the scheduler stands before a
\* put on an `inbound` that holds one item and takes no more.
C12_Witness ==
    /\ bundlesize = 2
    /\ sched_state = "PUT_LOCAL"
    /\ Len(inbound) = 1
    /\ Full(inbound)

\* C13: once an exception has surfaced in the caller's wait and has been
\* re-raised, halt has been signalled to every machine of the pipeline: to
\* the scheduler, to the collector, and to every executor whose run had not
\* ended by itself.
C13_HaltSignalledToAll ==
    caller = "raised"
        => /\ should_halt.scheduler
           /\ should_halt.collector
           /\ \A e \in Executors : should_halt.executor[e] \/ Terminated(exec_state[e])

\* C13 is reached: the exception was re-raised while an executor waits for
\* its child process.
C13_Witness ==
    /\ caller = "raised"
    /\ \E e \in Executors : exec_state[e] = "WAIT_TASK"

\* C14: the endpoint is released exactly once on every way out of the
\* coordinator's run. A run that has ended, normally or by an exception,
\* has released the endpoint; the endpoint only ever goes from closed to
\* open and from open to released; and nothing is put on `terminator` once
\* it is released.
C14_ReleasedOnce ==
    /\ [](ClientStopped => endpoint = "released")
    /\ [][endpoint' # endpoint
            => \/ (endpoint = "closed" /\ endpoint' = "open")
               \/ (endpoint = "open" /\ endpoint' = "released")]_vars
    /\ [][endpoint = "released" => terminator' = terminator]_vars

\* C14 is reached: the run was left by the error raised while publishing
\* the terminator, and the endpoint is released.
C14_Witness ==
    /\ client_pc = "failed"
    /\ error = Some("AttributeError")
    /\ terminator = <<>>
    /\ endpoint = "released"

\* C15: no bundle put on `completed` is empty; and a PUT_REMOTE or a
\* FINALIZE step taken with an empty pending list puts nothing and leaves
\* the pending list and previous_send as they were.
C15_NoEmptyBundle ==
    /\ [](\A i \in DOMAIN completed : completed[i] # <<>>)
    /\ [][(coll_state \in {"PUT_REMOTE", "FINALIZE"}
                /\ coll_state' # coll_state
                /\ coll_tasks = <<>>)
            => UNCHANGED <<completed, coll_tasks, previous_send>>]_vars

\* C15 is reached: after a bundle went out and the bundlewait has elapsed
\* again, the collector stands in PUT_REMOTE with nothing pending.
C15_Witness ==
    /\ coll_state = "PUT_REMOTE"
    /\ coll_tasks = <<>>
    /\ bundlewait = 1
    /\ now - previous_send >= bundlewait
    /\ completed # <<>>

\* The sentinels waiting on `inbound`, and the executors that have taken one.
SentinelsWaiting == Count(inbound, None)
SentinelsTaken == {e \in Executors : exec_state[e] \in {"FINALIZE", "HALT"}}

\* wait_executors has returned.
ExecutorsJoined ==
    client_pc \in {"signal_collector", "join_collector", "register_final_task",
                   "release", "stopped", "failed"}

\* C16: the coordinator puts exactly N sentinels on `inbound` and each
\* executor takes exactly one. At any moment the sentinels put are those
\* still waiting plus one per executor in FINALIZE or HALT; once
\* wait_executors has returned, N were put, every executor stands in HALT
\* and `inbound` is empty. An executor that takes a sentinel goes from
\* GET_LOCAL to FINALIZE and from there to HALT, and neither step spawns a
\* process or puts anything on `outbound`.
C16_OneSentinelEach ==
    /\ [](/\ signalled <= num_tasks
          /\ SentinelsWaiting + Cardinality(SentinelsTaken) = signalled)
    /\ [](ExecutorsJoined
            => /\ signalled = num_tasks
               /\ \A e \in Executors : exec_state[e] = "HALT"
               /\ inbound = <<>>)
    /\ [][\A e \in Executors :
            /\ (exec_state[e] = "GET_LOCAL" /\ exec_state'[e] # "GET_LOCAL"
                    /\ Head(inbound) = None)
                => (exec_state'[e] = "FINALIZE" /\ UNCHANGED <<process, outbound>>)
            /\ (exec_state[e] = "FINALIZE" /\ exec_state'[e] # "FINALIZE")
                => (exec_state'[e] = "HALT" /\ UNCHANGED <<process, outbound, inbound>>)]_vars

\* C16 is reached: wait_executors has returned, yet an executor whose run
\* was ended by an exception has left its sentinel on `inbound`.
C16_Witness ==
    /\ ExecutorsJoined
    /\ \E e \in Executors : exec_state[e] = "RAISED"
    /\ SentinelsWaiting > 0

IsPrefix(s, t) == Len(s) <= Len(t) /\ \A i \in 1..Len(s) : s[i] = t[i]

\* The ids of the finished tasks in the order they left the executors:
\* those in the bundles put, those pending in the collector, those waiting
\* on `outbound`.
LeftExecutors ==
    CompletedIds \o Ids(coll_tasks)
        \o Ids(SelectSeq(outbound, LAMBDA item : item # None))

\* C17: an executor works on one task at a time. The task it holds changes
\* identity only in GET_LOCAL; it comes back to GET_LOCAL from a task only
\* by the step of PUT_LOCAL that appends that very task to `outbound`, and
\* until then it stays in PUT_LOCAL with the task in hand. With a single
\* executor the finished tasks therefore leave in the order they were put
\* on `inbound`.
C17_OneTaskAtATime ==
    /\ [][\A e \in Executors :
            /\ (exec_state[e] \in {"START_TASK", "WAIT_TASK", "PUT_LOCAL"})
                => exec_task'[e].id = exec_task[e].id
            /\ (exec_state[e] \in {"START_TASK", "WAIT_TASK"})
                => exec_state'[e] # "GET_LOCAL"
            /\ (exec_state[e] = "PUT_LOCAL" /\ exec_state'[e] # "PUT_LOCAL")
                => /\ exec_state'[e] = "GET_LOCAL"
                   /\ outbound' = Append(outbound, exec_task[e])]_vars
    /\ [](num_tasks = 1 => IsPrefix(LeftExecutors, dispatched))

\* C17 is reached: the single executor stands in PUT_LOCAL with its second
\* task in hand, `outbound` still full with its first.
C17_Witness ==
    /\ num_tasks = 1
    /\ exec_state[1] = "PUT_LOCAL"
    /\ exec_task[1].id = "t2"
    /\ Full(outbound)
    /\ outbound[1].id = "t1"

\* The non-empty bundles among those received, in order.
NonEmptyReceived == SelectSeq(received, LAMBDA ids : ids # <<>>)

\* C18: UNPACK of an empty bundle raises instead of going on to POP_TASK,
\* and leaves the terminal id as it was; the terminal id changes only in
\* UNPACK of a non-empty bundle, to the id of that bundle's last task. A
\* scheduler ended by the empty bundle so holds the terminal id of the last
\* non-empty bundle received before it, or none.
C18_EmptyBundleRaises ==
    /\ [][(sched_state = "UNPACK" /\ sched_state' # "UNPACK"
                /\ sched_bundle = Some(<<>>))
            => (sched_state' = "RAISED" /\ final_task_id' = final_task_id)]_vars
    /\ [][final_task_id' # final_task_id
            => /\ sched_state = "UNPACK"
               /\ sched_bundle # Some(<<>>)
               /\ final_task_id' = Some(Last(BundleIds(sched_bundle[1])))]_vars
    /\ [](sched_state = "RAISED"
            => /\ Last(received) = <<>>
               /\ final_task_id = IF NonEmptyReceived = <<>> THEN None
                                  ELSE Some(Last(Last(NonEmptyReceived))))

\* C18 is reached: an empty bundle that came after a bundle of tasks has
\* ended the scheduler.
C18_Witness ==
    /\ sched_state = "RAISED"
    /\ sched_bundle = Some(<<>>)
    /\ final_task_id # None

\* C19: previous_send is written only by START and by the put of a
\* non-empty bundle on `completed`; the step that appends a task to the
\* pending list leaves it alone. So a CHECK_BUNDLE that reads the clock at
\* least bundlewait after previous_send goes to PACK_BUNDLE however few
\* tasks are pending, and the bundle it leads to holds every pending task.
C19_TimerSinceLastFlush ==
    /\ [][previous_send' # previous_send
            => \/ coll_state = "START"
               \/ /\ coll_state \in {"PUT_REMOTE", "FINALIZE"}
                  /\ coll_bundle # <<>>
                  /\ completed' = Append(completed, coll_bundle)]_vars
    /\ [][coll_tasks' # coll_tasks => previous_send' = previous_send
                                        \/ coll_tasks' = <<>>]_vars
    /\ [][(coll_state = "CHECK_BUNDLE" /\ coll_state' # "CHECK_BUNDLE"
                /\ now' - previous_send >= bundlewait)
            => coll_state' = "PACK_BUNDLE"]_vars

\* C19 is reached: a single task, pending since it arrived a second after
\* the collector started, is on its way out under a bundlesize of two.
C19_Witness ==
    /\ bundlesize = 2
    /\ bundlewait = 1
    /\ coll_state = "PACK_BUNDLE"
    /\ Len(coll_tasks) = 1
    /\ completed = <<>>
    /\ previous_send = 0
    /\ coll_tasks[1].completion_time = Some(1)

\* C20: the pending list never holds more than bundlesize tasks, and holds
\* fewer whenever the collector is about to take from `outbound`; no bundle
\* packed or put on `completed` is larger than bundlesize.
C20_PendingBounded ==
    /\ Len(coll_tasks) <= bundlesize
    /\ coll_state = "GET_LOCAL" => Len(coll_tasks) < bundlesize
    /\ Len(coll_bundle) <= bundlesize
    /\ \A i \in DOMAIN completed : Len(completed[i]) <= bundlesize

\* C20 is reached: the append of a second task has filled the pending list
\* under a bundlesize of two, and the collector is packing it.
C20_Witness ==
    /\ bundlesize = 2
    /\ bundlewait = NeverElapses
    /\ coll_state = "PACK_BUNDLE"
    /\ Len(coll_tasks) = 2

\* The pending tasks packed one by one, in the order of the pending list.
PackedPending == [i \in 1..Len(coll_tasks) |-> Pack(coll_tasks[i])]

\* C21: the pending list grows only at its tail, by the task taken from
\* `outbound`; PACK_BUNDLE makes the bundle the pending tasks packed in
\* that order, all of them and nothing else, and leaves the pending list
\* alone; and whatever is put on `completed` is that bundle, put by
\* PUT_REMOTE while the pending list is still the one that was packed.
C21_PackOrderIsAppendOrder ==
    /\ [][coll_tasks' # coll_tasks
            => \/ coll_tasks' = <<>>
               \/ /\ coll_state = "GET_LOCAL"
                  /\ outbound # <<>>
                  /\ coll_tasks' = Append(coll_tasks, Head(outbound))]_vars
    /\ [][(coll_state = "PACK_BUNDLE" /\ coll_state' # "PACK_BUNDLE")
            => /\ coll_bundle' = PackedPending
               /\ coll_tasks' = coll_tasks]_vars
    /\ [][completed' # completed
            => /\ coll_state = "PUT_REMOTE"
               /\ coll_tasks # <<>>
               /\ completed' = Append(completed, PackedPending)]_vars

\* C21 is reached: two executors finished their tasks out of order, and the
\* bundle put holds the second task before the first.
C21_Witness ==
    /\ completed # <<>>
    /\ BundleIds(completed[1]) = <<"t2", "t1">>

\* C22: the scheduler takes from `scheduled` only with its local task list
\* empty and every task it received already on `inbound`. It stands in
\* GET_REMOTE only then, nothing leaves `scheduled` in any other state, and
\* a scheduler that finds `inbound` full stays in PUT_LOCAL with its task.
C22_IntakeOnlyWhenDrained ==
    /\ [](sched_state = "GET_REMOTE"
            => (sched_tasks = <<>> /\ dispatched = ReceivedIds))
    /\ [][Len(scheduled') < Len(scheduled)
            => /\ sched_state = "GET_REMOTE"
               /\ sched_tasks = <<>>
               /\ dispatched = ReceivedIds
               /\ scheduled' = Tail(scheduled)]_vars
    /\ [][(sched_state = "PUT_LOCAL" /\ Full(inbound))
            => /\ sched_state' = "PUT_LOCAL"
               /\ sched_task' = sched_task
               /\ Len(scheduled') >= Len(scheduled)]_vars

\* C22 is reached: the scheduler waits on a full `inbound` with the last
\* task of its bundle while the server's next item waits on `scheduled`.
C22_Witness ==
    /\ sched_state = "PUT_LOCAL"
    /\ Full(inbound)
    /\ inbound[1] # None
    /\ sched_task.id = "t2"
    /\ scheduled # <<>>

\* C23: the scheduler reaches HALT only from GET_REMOTE, by taking the null
\* sentinel off `scheduled`; a scheduler in PUT_LOCAL goes nowhere but to
\* POP_TASK, by the put of its task, and takes nothing from `scheduled`. A
\* halted scheduler so holds the sentinel as its last bundle, has an empty
\* local task list, and has put every task of every bundle it received on
\* `inbound`.
C23_HaltOnlyWhenDrained ==
    /\ [][(sched_state # "HALT" /\ sched_state' = "HALT")
            => /\ sched_state = "GET_REMOTE"
               /\ scheduled # <<>>
               /\ Head(scheduled) = None
               /\ scheduled' = Tail(scheduled)
               /\ sched_tasks = <<>>
               /\ dispatched = ReceivedIds]_vars
    /\ [][(sched_state = "PUT_LOCAL" /\ sched_state' # "PUT_LOCAL")
            => /\ sched_state' = "POP_TASK"
               /\ inbound' = Append(inbound, sched_task)
               /\ scheduled' = scheduled]_vars
    /\ [](sched_state = "HALT"
            => /\ sched_bundle = None
               /\ sched_tasks = <<>>
               /\ Elements(ReceivedIds) \subseteq Elements(dispatched)
               /\ Len(dispatched) = Len(ReceivedIds))

\* C23 is reached: the scheduler has halted after two bundles, the task of
\* the second still waiting on `inbound`.
C23_Witness ==
    /\ sched_state = "HALT"
    /\ Len(received) = 2
    /\ inbound = <<NewTask(2)>>

\* No executor has a task in flight: each has taken its sentinel and halted.
NoTaskInFlight == \A e \in Executors : exec_state[e] = "HALT"

\* C24: the put on `terminator` is taken with `inbound` empty, `outbound`
\* empty and no executor holding a task in flight. An executor that has
\* taken its sentinel leaves no task behind on `inbound`, and the sentinel
\* of `outbound` is the last item there, put once no executor has a task
\* in flight.
C24_DrainedAtTerminator ==
    /\ [][terminator' # terminator
            => /\ inbound = <<>>
               /\ outbound = <<>>
               /\ NoTaskInFlight]_vars
    /\ [](\A e \in Executors :
            exec_state[e] \in {"FINALIZE", "HALT"}
                => \A i \in DOMAIN inbound : inbound[i] = None)
    /\ [](\A i \in DOMAIN outbound :
            outbound[i] = None => (i = Len(outbound) /\ NoTaskInFlight))

\* C24 is reached: the terminal id is put while a sentinel is left on
\* `inbound` and the executor ended by an exception still holds its task.
C24_Witness ==
    /\ terminator # <<>>
    /\ inbound = <<None>>
    /\ \E e \in Executors : exec_state[e] = "RAISED" /\ exec_task[e] # None

\* The executors that have taken task x from `inbound` and not yet put it
\* on `outbound`.
Holders(x) ==
    {e \in Executors :
        /\ exec_state[e] \in {"START_TASK", "WAIT_TASK", "PUT_LOCAL", "RAISED"}
        /\ exec_task[e].id = x}

\* The ids of the tasks waiting on `inbound`.
WaitingIds == Ids(SelectSeq(inbound, LAMBDA item : item # None))

\* The places task x is in: waiting on `inbound`, held by an executor, or
\* among the tasks that have left the executors.
Copies(x) == Count(WaitingIds, x) + Cardinality(Holders(x)) + Count(LeftExecutors, x)

\* C25: every task put on `inbound` is in exactly one place: waiting there,
\* held by one executor, or once among the tasks put on `outbound` (still
\* there, pending in the collector, or in a bundle on `completed`); and
\* every task in a bundle on `completed` was received on `scheduled`. A step
\* of GET_LOCAL that takes a task gives the head of `inbound` to that
\* executor alone, and a child process is spawned only in START_TASK, for
\* a task that has no start time yet.
C25_EachTaskOnce ==
    /\ [](\A x \in Elements(dispatched) : Count(dispatched, x) = 1 /\ Copies(x) = 1)
    /\ [](Elements(WaitingIds) \cup Elements(LeftExecutors) \subseteq Elements(dispatched))
    /\ [](Elements(CompletedIds) \subseteq Elements(ReceivedIds))
    /\ [][\A e \in Executors :
            /\ (exec_state[e] = "GET_LOCAL" /\ exec_state'[e] = "START_TASK")
                => /\ exec_task'[e] = Head(inbound)
                   /\ inbound' = Tail(inbound)
                   /\ \A f \in Executors \ {e} : exec_task'[f] = exec_task[f]
            /\ process'[e] # process[e] /\ process[e] = None
                => /\ exec_state[e] = "START_TASK"
                   /\ exec_task[e].start_time = None
            /\ (process'[e] # process[e] /\ process[e] # None
                    /\ process'[e].returncode = None)
                => /\ exec_state[e] = "START_TASK"
                   /\ exec_task[e].start_time = None
                   /\ process[e].returncode # None]_vars

\* C25 is reached: two executors run the two tasks of one bundle at the
\* same time, the second executor having taken the first task.
C25_Witness ==
    /\ num_tasks = 2
    /\ Len(received) = 1
    /\ exec_state[1] = "WAIT_TASK" /\ exec_task[1].id = "t2"
    /\ exec_state[2] = "WAIT_TASK" /\ exec_task[2].id = "t1"

\* The executors whose child process is running.
Running == {e \in Executors : process[e] # None /\ process[e].returncode = None}

\* C26: an executor has a running child only while it stands in WAIT_TASK,
\* and the child runs the command of the one task the executor holds; so
\* no more than num_tasks children run at a time. An executor enters
\* FINALIZE only from GET_LOCAL and HALT only from FINALIZE, and an executor
\* in FINALIZE or HALT has no running child.
C26_OneChildPerExecutor ==
    /\ [](\A e \in Running :
            /\ exec_state[e] = "WAIT_TASK"
            /\ exec_task[e] # None
            /\ exec_task[e].command = Some(process[e].command))
    /\ [](Cardinality(Running) <= num_tasks)
    /\ [](\A e \in Executors :
            exec_state[e] \in {"FINALIZE", "HALT"} => e \notin Running)
    /\ [][\A e \in Executors :
            /\ (exec_state[e] # "FINALIZE" /\ exec_state'[e] = "FINALIZE")
                => exec_state[e] = "GET_LOCAL"
            /\ (exec_state[e] # "HALT" /\ exec_state'[e] = "HALT")
                => exec_state[e] = "FINALIZE"]_vars

\* C26 is reached: with two executors two children run at once, and with
\* them the client is at its limit.
C26_Witness ==
    /\ num_tasks = 2
    /\ Cardinality(Running) = num_tasks

\* C27: in every mode the launcher generates its key once and every
\* process it starts carries that key; a process for a client is started
\* only after the server's; and the launcher turns to waiting for the
\* server only once it has started every client and each has exited, and
\* ends only once the server has exited too.
C27_OneKeyServerFirst ==
    /\ generated <= 1
    /\ server_process # None
        => (generated = 1 /\ Some(server_process[1].authkey) = authkey)
    /\ \A i \in DOMAIN client_processes :
            /\ server_process # None
            /\ client_processes[i].authkey = server_process[1].authkey
            /\ Some(client_processes[i].authkey) = authkey
    /\ cluster_pc \in {"wait_server", "done"}
        => /\ Len(client_processes) = NumClients
           /\ waited = NumClients
           /\ \A i \in DOMAIN client_processes :
                    client_processes[i].returncode # None
    /\ cluster_pc = "done" => server_process[1].returncode # None

\* C27 is reached: in ssh mode the launcher has started a client per host
\* line, has waited for each, and now waits for the server still running.
C27_Witness ==
    /\ cluster_mode = "ssh"
    /\ Len(client_processes) = MaxClients
    /\ cluster_pc = "wait_server"
    /\ server_process[1].returncode = None
    /\ authkey = Some("k2")

====
